---- MODULE Spec2Model ----
(***************************************************************************)
(* OpenPiton CPU wrapper of LiteX (litex/soc/cores/cpu/openpiton/core.py). *)
(*                                                                         *)
(* The wrapper instantiates the CPU, a 5000-cycle WaitTimer that drives    *)
(* the CPU's active-low reset, an AXI decoder that splits the CPU's AXI    *)
(* master on one address bit, and one AXI-to-Wishbone converter per        *)
(* region.  The I/O region is cast from 512 to 32 bits by a plain          *)
(* connect(), and its read data is replicated over the 512-bit bus.        *)
(*                                                                         *)
(* One state is one clock cycle of the "sys" domain: the registers' values *)
(* in that cycle and the levels of the two reset inputs in that cycle.     *)
(* One step is one rising clock edge: the registers take their next value  *)
(* from the levels of the cycle before the edge, and the environment       *)
(* chooses the inputs of the next cycle.  At most one handshake is taken   *)
(* per edge (interleaving of the two regions).                             *)
(*                                                                         *)
(* A 64-bit address is the set of the positions of its 1 bits; a 32-bit    *)
(* word is the pair <<upper half, lower half>> of 16-bit numbers; a wider  *)
(* signal is the sequence of its 32-bit lanes, lane 1 holding bits 31..0;  *)
(* a strobe is the sequence of its 4-bit nibbles, one per 32-bit lane.     *)
(***************************************************************************)
EXTENDS Integers, Sequences, FiniteSets, TLC

VARIABLES
    sys_rst,        \* ResetSignal("sys") in this cycle
    self_reset,     \* self.reset in this cycle
    count,          \* wait_timer's count register
    cycles,         \* clock edges seen since the sys reset was last sampled high
    dec,            \* op2litex_decoder: per output, the id it is routing
    slave_sel,      \* op2litex_decoder: the predicates' outputs for the last address
    routing_error,  \* an address was presented that no predicate matched
    conv,           \* mem_bus_a2w / io_bus_a2w: state and transaction held
    wbReq,          \* mem_wb / io_wb: requests issued and not acknowledged
    ioWide,         \* beats taken on io_axi_litex.w for the transaction in flight
    ioW,            \* beats seen on io_axi_down_conv.w for the transaction in flight
    up_r,           \* read beat handed to the CPU on mem_axi.r at the last edge
    nextSerial,     \* serial number of the next transaction the CPU issues
    responded,      \* serials whose response was handed to the CPU
    abandoned       \* serials discarded by a reset while awaiting their acknowledge

vars == <<sys_rst, self_reset, count, cycles, dec, slave_sel, routing_error, conv,
          wbReq, ioWide, ioW, up_r, nextSerial, responded, abandoned>>

----------------------------------------------------------------------------
\* Bounds of the model.

\* Transactions the CPU issues between two sys-domain resets.
MaxTxn == 2

----------------------------------------------------------------------------
\* Program constants.

data_width == 512
addr_width == 64
io_data_width == 32
WaitCycles == 5000

RECURSIVE log2_int(_)
log2_int(n) == IF n <= 1 THEN 0 ELSE 1 + log2_int(n \div 2)

\* Number of 32-bit lanes of the wide bus, and the Replicate count 512//32.
WideLanes == data_width \div io_data_width
ReplicateCount == 512 \div 32

----------------------------------------------------------------------------
\* Values the environment draws its inputs from.

Chan == {"mem", "io"}
Bus == {"mem_wb", "io_wb"}
Kinds == {"read", "write"}
Ids == {0, 1}
NoId == 0 - 1

\* Byte addresses: 0x0200_0000, 0x1000_0000, 0x4000_0000 (main_ram),
\* 0x1_0000_0000, 0x8000_0000 (csr), 0x9000_0000, 0xFFFF_FFFF.
Addrs == { {25}, {28}, {30}, {32}, {31}, {28, 31}, 0 .. 31 }

Zero == <<0, 0>>
DEADBEEF == <<57005, 48879>>
Words == {Zero, DEADBEEF}

CountWide == [i \in 1 .. WideLanes |-> <<0, i>>]
DeadWide == [i \in 1 .. WideLanes |-> DEADBEEF]
AllOnes == [i \in 1 .. WideLanes |-> 15]
SecondLane == [i \in 1 .. WideLanes |-> IF i = 2 THEN 15 ELSE 0]

\* Single-beat write data the CPU presents on mem_axi.w (wlast is 1).
WriteBeats == { [data |-> CountWide, strb |-> AllOnes, last |-> TRUE],
                [data |-> DeadWide, strb |-> AllOnes, last |-> TRUE],
                [data |-> CountWide, strb |-> SecondLane, last |-> TRUE] }

\* Read data a Wishbone target returns: 512 bits on mem_wb, 32 bits on io_wb.
ReadData(ch) == IF ch = "mem" THEN {CountWide} ELSE {<<w>> : w \in Words}

NoTxn == [serial |-> 0, kind |-> "none", id |-> NoId, addr |-> {}]
IdleConv == [st |-> "IDLE", txn |-> NoTxn, rdata |-> <<>>]
NoBeat == [ch |-> "none", id |-> NoId, wb |-> <<>>, data |-> <<>>]

----------------------------------------------------------------------------
\* Bit-level helpers (Migen signal semantics).

Bit(a, i) == IF i \in a THEN 1 ELSE 0

\* a[n:] of an address
ShiftRight(a, n) == { i - n : i \in { j \in a : j >= n } }

\* ~ of a 1-bit signal
Not1(b) == 1 - b

\* dst.eq(src) for a destination of n lanes: the low lanes of a wider source,
\* a narrower source zero-extended.
Assign(n, src) ==
    [i \in 1 .. n |-> IF i <= Len(src) THEN src[i] ELSE Zero]

\* the same for a strobe of n nibbles
AssignStrb(n, src) ==
    [i \in 1 .. n |-> IF i <= Len(src) THEN src[i] ELSE 0]

\* Replicate(v, n)
Replicate(v, n) == [i \in 1 .. (n * Len(v)) |-> v[((i - 1) % Len(v)) + 1]]

\* sig[32*lo:].eq(val), the lanes below lo kept
SliceAssign(sig, lo, val) ==
    [i \in 1 .. Len(sig) |->
        IF i > lo THEN Assign(Len(sig) - lo, val)[i - lo] ELSE sig[i]]

----------------------------------------------------------------------------
\* wait_timer and the CPU's reset.

\* Faulty variant: the timer is restarted while self.reset is high.
WaitTimerWait_SelfReset == IF self_reset THEN 0 ELSE 1

WaitTimerWait == 1

WaitTimerDone == IF count = 0 THEN 1 ELSE 0

sys_rst_n == WaitTimerDone

WaitTimerNext ==
    IF sys_rst THEN WaitCycles
    ELSE IF WaitTimerWait = 1
         THEN (IF WaitTimerDone = 0 THEN count - 1 ELSE count)
         ELSE WaitCycles

\* The CPU instance runs (and drives its AXI master) when its reset is released.
CpuRunning == sys_rst_n = 1

----------------------------------------------------------------------------
\* op2litex_decoder.

\* Faulty variant: the index is corrected by the width of the 32-bit I/O bus.
DecodeBit_IoWidth == 31 - log2_int(io_data_width \div 8)

DecodeBit == 31 - log2_int(data_width \div 8)

\* Faulty variant: the memory predicate tests the bit below.
MemPredicate_BitBelow(addr) == Not1(Bit(addr, DecodeBit - 1))

\* Faulty variant: the memory predicate matches every address.
MemPredicate_Always(addr) == 1

MemPredicate(addr) == Not1(Bit(addr, DecodeBit))

IoPredicate(addr) == Bit(addr, DecodeBit)

\* The decoder hands its predicates the beat address: the byte address without
\* the bits that select a byte of the beat.
DecoderAddr(a) == ShiftRight(a, log2_int(data_width \div 8))

Decode(a) == <<MemPredicate(DecoderAddr(a)), IoPredicate(DecoderAddr(a))>>

\* The first matching output, in list order.
Route(sel) == IF sel[1] = 1 THEN "mem" ELSE IF sel[2] = 1 THEN "io" ELSE "none"

DecoderReset == sys_rst \/ self_reset

----------------------------------------------------------------------------
\* mem_bus_a2w and io_bus_a2w.

\* Faulty variant: mem_bus_a2w gives up a request it is waiting on.
MemA2wReset_Timeout == sys_rst \/ self_reset \/ conv["mem"].st = "RESP_PENDING"

MemA2wReset == sys_rst \/ self_reset

\* Faulty variant: io_bus_a2w is reset by the sys domain only.
IoA2wReset_SysOnly == sys_rst

IoA2wReset == sys_rst \/ self_reset

A2wReset(ch) == IF ch = "mem" THEN MemA2wReset ELSE IoA2wReset

\* Faulty variant: both converters master mem_wb.
WbOf_Shared(ch) == "mem_wb"

\* The Wishbone bus each converter masters.
WbOf(ch) == IF ch = "mem" THEN "mem_wb" ELSE "io_wb"

\* A converter takes an address only in IDLE.
ConvReady(ch) == conv[ch].st = "IDLE"

----------------------------------------------------------------------------
\* The I/O region path.

\* io_axi_litex.connect(io_axi_down_conv), w channel: every field is assigned
\* to the field of the same name, 512 -> 32 data bits and 64 -> 4 strobe bits.
\* Faulty variant: the cast keeps the top lane.
IoDownBeat_TopLane(wide) ==
    [data |-> <<wide.data[Len(wide.data)]>>,
     strb |-> <<wide.strb[Len(wide.strb)]>>,
     last |-> wide.last]

IoDownBeat(wide) ==
    [data |-> Assign(1, wide.data),
     strb |-> AssignStrb(1, wide.strb),
     last |-> wide.last]

\* io_axi_litex.r.data: connect() assigns the narrow data, then bits 32 and up
\* are assigned Replicate(io_axi_down_conv.r.data, 512//32).
\* Faulty variant: the replication is left out, only connect() drives r.data.
IoRData_ConnectOnly(narrow) == Assign(WideLanes, narrow)

IoRData(narrow) ==
    SliceAssign(Assign(WideLanes, narrow), 1, Replicate(narrow, ReplicateCount))

\* r.data on mem_axi for a read answered on ch.
UpstreamRData(ch, rdata) == IF ch = "mem" THEN rdata ELSE IoRData(rdata)

----------------------------------------------------------------------------
\* One rising clock edge.

\* Converters that hold a transaction and whose reset input is high at this edge.
InReset == { c \in Chan : A2wReset(c) /\ conv[c].st # "IDLE" }

\* Serials of the transactions such a converter discards while it awaits the
\* acknowledge of its Wishbone request.
Discarded ==
    { conv[ch].txn.serial : ch \in { c \in InReset : conv[c].st = "RESP_PENDING" } }

\* The registers after the edge, c2, d2, q2, w2 and n2 being what the converters,
\* the decoder, the Wishbone requests and the I/O write channels become when no
\* reset is sampled.  ResetInserter: a module whose reset is high takes its
\* reset values instead.
Clock(c2, d2, q2, w2, n2) ==
    /\ count' = WaitTimerNext
    /\ cycles' = IF sys_rst THEN 0 ELSE IF cycles < WaitCycles THEN cycles + 1 ELSE cycles
    /\ conv' = [ch \in Chan |-> IF A2wReset(ch) THEN IdleConv ELSE c2[ch]]
    /\ wbReq' = [b \in Bus |->
                    q2[b] \ { conv[ch].txn.serial : ch \in { c \in InReset : WbOf(c) = b } }]
    /\ dec' = IF DecoderReset THEN [ch \in Chan |-> NoId] ELSE d2
    /\ ioWide' = IF IoA2wReset THEN <<>> ELSE w2
    /\ ioW' = IF IoA2wReset THEN <<>> ELSE n2
    /\ abandoned' = IF sys_rst THEN {} ELSE abandoned \cup Discarded

Idle == Clock(conv, dec, wbReq, ioWide, ioW)

\* What the CPU has seen and issued.  A sys-domain reset restarts the whole
\* system, the CPU included: the record of the transactions starts anew.
History ==
    IF sys_rst
    THEN /\ slave_sel' = <<1, 0>>
         /\ routing_error' = FALSE
         /\ up_r' = NoBeat
         /\ nextSerial' = 1
         /\ responded' = {}
    ELSE /\ up_r' = NoBeat
         /\ UNCHANGED <<slave_sel, routing_error, nextSerial, responded>>

\* An edge with no handshake and no change of the reset inputs.
Tick ==
    /\ Idle
    /\ History
    /\ UNCHANGED <<sys_rst, self_reset>>

\* The sys-domain reset goes high after this edge.
SysRstAssert ==
    /\ ~sys_rst
    /\ sys_rst' = TRUE
    /\ Idle
    /\ History
    /\ UNCHANGED self_reset

\* The sys-domain reset is sampled high at this edge and goes low after it.
SysRstRelease ==
    /\ sys_rst
    /\ sys_rst' = FALSE
    /\ Idle
    /\ History
    /\ UNCHANGED self_reset

\* self.reset goes high after this edge.
SelfResetAssert ==
    /\ ~self_reset
    /\ self_reset' = TRUE
    /\ Idle
    /\ History
    /\ UNCHANGED sys_rst

\* self.reset is sampled high at this edge and goes low after it.
SelfResetRelease ==
    /\ self_reset
    /\ self_reset' = FALSE
    /\ Idle
    /\ History
    /\ UNCHANGED sys_rst

----------------------------------------------------------------------------
\* Handshakes.

\* aw or ar handshake on mem_axi: the decoder evaluates its predicates and the
\* converter of the selected region takes the address.
AcceptAddr(kind, id, a) ==
    /\ CpuRunning
    /\ nextSerial <= MaxTxn
    /\ ~DecoderReset
    /\ LET sel == Decode(a)
           ch == Route(sel)
       IN  /\ slave_sel' = sel
           /\ IF ch = "none"
              THEN /\ routing_error' = TRUE
                   /\ Idle
                   /\ UNCHANGED nextSerial
              ELSE /\ ConvReady(ch)
                   /\ ~A2wReset(ch)
                   /\ Clock([conv EXCEPT ![ch] =
                                [st |-> "ADDR_ACCEPTED",
                                 txn |-> [serial |-> nextSerial, kind |-> kind,
                                          id |-> id, addr |-> a],
                                 rdata |-> <<>>]],
                            [dec EXCEPT ![ch] = id], wbReq, ioWide, ioW)
                   /\ nextSerial' = nextSerial + 1
                   /\ UNCHANGED routing_error
    /\ up_r' = NoBeat
    /\ UNCHANGED <<sys_rst, self_reset, responded>>

\* w handshake on mem_axi for the write held by the converter of ch.
WBeat(ch, beat) ==
    /\ CpuRunning
    /\ ~DecoderReset
    /\ ~A2wReset(ch)
    /\ conv[ch].st = "ADDR_ACCEPTED"
    /\ conv[ch].txn.kind = "write"
    /\ dec[ch] = conv[ch].txn.id
    /\ Clock([conv EXCEPT ![ch].st = "DATA_TRANSFER"], dec, wbReq,
             IF ch = "io" THEN Append(ioWide, beat) ELSE ioWide,
             IF ch = "io" THEN Append(ioW, IoDownBeat(beat)) ELSE ioW)
    /\ up_r' = NoBeat
    /\ UNCHANGED <<sys_rst, self_reset, slave_sel, routing_error, nextSerial, responded>>

\* The converter of ch raises cyc/stb on its Wishbone bus.
WbRequest(ch) ==
    /\ ~A2wReset(ch)
    /\ \/ conv[ch].st = "DATA_TRANSFER"
       \/ conv[ch].st = "ADDR_ACCEPTED" /\ conv[ch].txn.kind = "read"
    /\ Clock([conv EXCEPT ![ch].st = "RESP_PENDING"], dec,
             [wbReq EXCEPT ![WbOf(ch)] = @ \cup {conv[ch].txn.serial}], ioWide, ioW)
    /\ up_r' = NoBeat
    /\ UNCHANGED <<sys_rst, self_reset, slave_sel, routing_error, nextSerial, responded>>

\* The Wishbone target of ch acknowledges, with read data rdata.
WbAck(ch, rdata) ==
    /\ ~A2wReset(ch)
    /\ conv[ch].st = "RESP_PENDING"
    /\ conv[ch].txn.serial \in wbReq[WbOf(ch)]
    /\ Clock([conv EXCEPT ![ch].st = "COMPLETE",
                          ![ch].rdata = IF conv[ch].txn.kind = "read" THEN rdata ELSE <<>>],
             dec, [wbReq EXCEPT ![WbOf(ch)] = @ \ {conv[ch].txn.serial}], ioWide, ioW)
    /\ up_r' = NoBeat
    /\ UNCHANGED <<sys_rst, self_reset, slave_sel, routing_error, nextSerial, responded>>

\* b or r handshake on mem_axi: the response of the transaction held by the
\* converter of ch is handed to the CPU.
Respond(ch) ==
    /\ CpuRunning
    /\ ~DecoderReset
    /\ ~A2wReset(ch)
    /\ conv[ch].st = "COMPLETE"
    /\ dec[ch] = conv[ch].txn.id
    /\ Clock([conv EXCEPT ![ch] = IdleConv], [dec EXCEPT ![ch] = NoId], wbReq,
             IF ch = "io" THEN <<>> ELSE ioWide,
             IF ch = "io" THEN <<>> ELSE ioW)
    /\ up_r' = IF conv[ch].txn.kind = "read"
               THEN [ch |-> ch, id |-> conv[ch].txn.id, wb |-> conv[ch].rdata,
                     data |-> UpstreamRData(ch, conv[ch].rdata)]
               ELSE NoBeat
    /\ responded' = responded \cup {conv[ch].txn.serial}
    /\ UNCHANGED <<sys_rst, self_reset, slave_sel, routing_error, nextSerial>>

----------------------------------------------------------------------------

Init ==
    /\ sys_rst = TRUE
    /\ self_reset = FALSE
    /\ count = WaitCycles
    /\ cycles = 0
    /\ dec = [ch \in Chan |-> NoId]
    /\ slave_sel = <<1, 0>>
    /\ routing_error = FALSE
    /\ conv = [ch \in Chan |-> IdleConv]
    /\ wbReq = [b \in Bus |-> {}]
    /\ ioWide = <<>>
    /\ ioW = <<>>
    /\ up_r = NoBeat
    /\ nextSerial = 1
    /\ responded = {}
    /\ abandoned = {}

Next ==
    \/ Tick
    \/ SysRstAssert
    \/ SysRstRelease
    \/ SelfResetAssert
    \/ SelfResetRelease
    \/ \E kind \in Kinds, id \in Ids, a \in Addrs : AcceptAddr(kind, id, a)
    \/ \E ch \in Chan, beat \in WriteBeats : WBeat(ch, beat)
    \/ \E ch \in Chan : WbRequest(ch)
    \/ \E ch \in Chan : \E rdata \in ReadData(ch) : WbAck(ch, rdata)
    \/ \E ch \in Chan : Respond(ch)

Spec == Init /\ [][Next]_vars

\* The clock runs, a converter that can raise its request does, and the CPU
\* takes the handshakes it is offered.  Nothing makes a Wishbone target
\* acknowledge, and nothing makes the environment change a reset input.
SpecFair ==
    /\ Init
    /\ [][Next]_vars
    /\ WF_vars(Tick)
    /\ \A ch \in Chan : WF_vars(WbRequest(ch))
    /\ \A ch \in Chan : WF_vars(\E beat \in WriteBeats : WBeat(ch, beat))
    /\ \A ch \in Chan : WF_vars(Respond(ch))

----------------------------------------------------------------------------
\* Properties.

ResetIn == sys_rst \/ self_reset

Busy(ch) == conv[ch].st # "IDLE"

\* C1: a transaction held by the memory-path converter has bit 31 of its byte
\* address 0, and one held by the I/O-path converter has bit 31 equal to 1.
C1_RouteByBit31 ==
    \A ch \in Chan :
        Busy(ch) => (ch = "mem" <=> Bit(conv[ch].txn.addr, 31) = 0)

\* 0x1000_0000 is on the memory path while 0x9000_0000 is on the I/O path.
C1_Witness ==
    /\ Busy("mem") /\ conv["mem"].txn.addr = {28}
    /\ Busy("io") /\ conv["io"].txn.addr = {28, 31}

\* C2 as stated: one wide write beat with all-ones strobe reaches
\* io_axi_down_conv.w as 16 beats, each with strobe 0xF, last on the 16th only.
C2_SixteenNarrowBeats ==
    (Len(ioWide) = 1 /\ ioWide[1].strb = AllOnes) =>
        /\ Len(ioW) = WideLanes
        /\ \A j \in 1 .. Len(ioW) :
              /\ ioW[j].strb = <<15>>
              /\ ioW[j].last = (j = WideLanes)

\* C2 amended: every wide write beat reaches io_axi_down_conv.w as exactly one
\* beat, which carries bits 31..0 of the data, bits 3..0 of the strobe and the
\* beat's last flag; the address taken by the converter is the CPU's.
C2_OneTruncatedBeat ==
    /\ Len(ioW) = Len(ioWide)
    /\ \A k \in 1 .. Len(ioWide) :
          /\ ioW[k].data = <<ioWide[k].data[1]>>
          /\ ioW[k].strb = <<ioWide[k].strb[1]>>
          /\ ioW[k].last = ioWide[k].last

\* A wide beat whose strobe enables lane 1 only (bytes 4..7) has been cast: the
\* narrow beat carries an empty strobe.
C2_Witness ==
    /\ Len(ioWide) = 1
    /\ ioWide[1].strb = SecondLane
    /\ ioW = <<[data |-> <<<<0, 1>>>>, strb |-> <<0>>, last |-> TRUE]>>
    /\ conv["io"].st = "RESP_PENDING"

\* C3: a read beat handed to the CPU from the I/O path has all 16 lanes equal
\* to the 32-bit value the narrow channel returned.
C3_ReadReplicated ==
    up_r.ch = "io" =>
        /\ Len(up_r.data) = 16
        /\ \A lane \in 1 .. 16 : up_r.data[lane] = up_r.wb[1]

\* The I/O path returned 0xDEADBEEF.
C3_Witness == up_r.ch = "io" /\ up_r.wb = <<DEADBEEF>>

\* C4: the edge at which the reset is last sampled high leaves the decoder and
\* both converters idle with no Wishbone request raised; a transaction awaiting
\* its acknowledge when the reset is sampled is discarded without a response;
\* no discarded transaction is ever answered.
C4_DataLossOnReset ==
    /\ [][(ResetIn /\ ~ResetIn') =>
            /\ \A ch \in Chan : conv'[ch] = IdleConv /\ dec'[ch] = NoId
            /\ \A b \in Bus : wbReq'[b] = {}]_vars
    /\ [][\A ch \in Chan :
            (ResetIn /\ conv[ch].st = "RESP_PENDING") =>
                /\ conv'[ch] = IdleConv
                /\ conv[ch].txn.serial \notin responded'
                /\ ~sys_rst => conv[ch].txn.serial \in abandoned']_vars
    /\ [](abandoned \cap responded = {})

\* A transaction was discarded while awaiting its acknowledge, the reset has
\* cleared, and a later transaction has been answered.
C4_Witness ==
    /\ ~ResetIn
    /\ 1 \in abandoned
    /\ 2 \in responded
    /\ \A ch \in Chan : ~Busy(ch)

C6_OneOutstandingPerBus ==
    \A b \in Bus : Cardinality(wbReq[b]) <= 1

\* Both buses have a request outstanding.
C6_Witness ==
    /\ wbReq["mem_wb"] # {}
    /\ wbReq["io_wb"] # {}

\* C7: exactly one of the two predicates matches the address presented, and no
\* address is left without a path.
C7_ExactlyOneRegion ==
    /\ slave_sel[1] + slave_sel[2] = 1
    /\ slave_sel[1] \in {0, 1}
    /\ ~routing_error

\* The I/O predicate alone matched 0xFFFF_FFFF.
C7_Witness ==
    /\ slave_sel = <<0, 1>>
    /\ Busy("io")
    /\ conv["io"].txn.addr = 0 .. 31

\* An address of region ch, by bit 31.
Region(ch) == { a \in Addrs : (ch = "mem") <=> (Bit(a, 31) = 0) }

\* C8: while the converter of one region waits for an acknowledge, every step
\* of a transaction of the other region can be taken: its address is accepted,
\* its data beat is taken, its request is raised, its acknowledge is taken and
\* its response is handed to the CPU.
C8_RegionsIndependent ==
    \A a \in Chan, b \in Chan :
        (a # b /\ conv[a].st = "RESP_PENDING" /\ ~ResetIn /\ CpuRunning) =>
            /\ (conv[b].st = "IDLE" /\ nextSerial <= MaxTxn) =>
                  \A kind \in Kinds, id \in Ids, addr \in Region(b) :
                      ENABLED AcceptAddr(kind, id, addr)
            /\ (conv[b].st = "ADDR_ACCEPTED" /\ conv[b].txn.kind = "write") =>
                  \A beat \in WriteBeats : ENABLED WBeat(b, beat)
            /\ (conv[b].st = "ADDR_ACCEPTED" /\ conv[b].txn.kind = "read") =>
                  ENABLED WbRequest(b)
            /\ conv[b].st = "DATA_TRANSFER" => ENABLED WbRequest(b)
            /\ conv[b].st = "RESP_PENDING" =>
                  \A rdata \in ReadData(b) : ENABLED WbAck(b, rdata)
            /\ conv[b].st = "COMPLETE" => ENABLED Respond(b)

\* The first transaction still waits on the memory path while a later read
\* with another id has been answered on the I/O path.
C8_Witness ==
    /\ conv["mem"].st = "RESP_PENDING"
    /\ conv["mem"].txn.serial = 1
    /\ 2 \in responded
    /\ up_r.ch = "io"
    /\ up_r.id # conv["mem"].txn.id

\* C9 as stated: whenever the CPU is held in reset both converters' reset
\* inputs are high, and whenever self.reset is high the CPU is held in reset.
C9_ResetWithCpu ==
    /\ sys_rst_n = 0 => (MemA2wReset /\ IoA2wReset)
    /\ self_reset => sys_rst_n = 0

\* C10: once the sys reset is no longer sampled, sys_rst_n is 0 in the first
\* 5000 cycles and 1 from then on; it stays 1 over every edge at which the sys
\* reset is low, whatever self.reset does; the timer's wait input is 1.
C10_ResetRelease ==
    /\ [](~sys_rst => (sys_rst_n = 1 <=> cycles >= 5000))
    /\ [](~sys_rst => (sys_rst_n = 0 <=> count = 5000 - cycles /\ cycles < 5000))
    /\ [][(sys_rst_n = 1 /\ ~sys_rst) => sys_rst_n' = 1]_vars
    /\ [](WaitTimerWait = 1)

\* self.reset is high after the 5000 cycles, and the CPU's reset is released.
C10_Witness ==
    /\ self_reset
    /\ ~sys_rst
    /\ sys_rst_n = 1
    /\ cycles = 5000

====
